---- MODULE Spec2Model ----
(***************************************************************************)
(* Movement/direction state machine of the tank (src/src/main.rs).         *)
(*                                                                         *)
(* The program state is the single Tank owned by GameState.  Two           *)
(* operations mutate it: GameState::key_down_event (request_direction)     *)
(* and Tank::update (advance).  Both are modelled as operators from a      *)
(* Tank record to a Tank record, translated statement by statement.        *)
(***************************************************************************)
EXTENDS Integers, Sequences, FiniteSets, TLC

VARIABLES
    tank,      \* GameState.tank : the six fields of struct Tank
    pre,       \* the Tank as it was when the last operation began
    op,        \* the last operation: "new", "key" or "tick"
    input,     \* KeyInput.keycode of the last key_down_event (an Option)
    new_pos,   \* the argument of the last Tank::update (an Option)
    ticks,     \* number of Tank::update calls so far
    keys,      \* number of key_down_event calls so far
    moved,     \* number of key presses since the last tick that changed `direction`
    clean,     \* every key press since the last tick was an arrow key
               \* that is not the inverse of the heading it met
    rect       \* the rectangle Tank::draw hands to the canvas (an Option),
               \* present only while the frame is being drawn

vars == <<tank, pre, op, input, new_pos, ticks, keys, moved, clean, rect>>

----------------------------------------------------------------------------
(* Bounds of the exploration *)

MaxTicks == 2
MaxKeys == 3

----------------------------------------------------------------------------
(* Option<T> : None is the empty sequence, Some(v) the one-element one *)

None == <<>>
Some(v) == <<v>>
is_some(o) == o # <<>>
unwrap(o) == o[1]

(* enum Direction *)
Direction == {"Up", "Down", "Left", "Right"}

(* the key codes the model distinguishes: the four arrows and one other *)
KeyCode == {"Up", "Down", "Left", "Right", "Space"}

(* struct Position *)
Position_new(x, y) == [x |-> x, y |-> y]

(* Direction::inverse *)
inverse(d) ==
    CASE d = "Up" -> "Down"
      [] d = "Down" -> "Up"
      [] d = "Left" -> "Right"
      [] d = "Right" -> "Left"

(* variant: the catch-all arm yields a direction *)
from_keycode_default(key) ==
    CASE key = "Up" -> Some("Up")
      [] key = "Down" -> Some("Down")
      [] key = "Left" -> Some("Left")
      [] key = "Right" -> Some("Right")
      [] OTHER -> Some("Up")

(* Direction::from_keycode *)
from_keycode(key) ==
    CASE key = "Up" -> Some("Up")
      [] key = "Down" -> Some("Down")
      [] key = "Left" -> Some("Left")
      [] key = "Right" -> Some("Right")
      [] OTHER -> None

(* input.keycode.and_then(Direction::from_keycode): the direction a key    *)
(* event asks for, when it carries an arrow key                            *)
requested(keycode) ==
    IF is_some(keycode) THEN from_keycode(unwrap(keycode)) ELSE None

(* variant: the four unit steps of a symmetric grid *)
new_move_sym(p, direction) ==
    CASE direction = "Up" -> Position_new(p.x, p.y - 1)
      [] direction = "Down" -> Position_new(p.x, p.y + 1)
      [] direction = "Left" -> Position_new(p.x - 1, p.y)
      [] direction = "Right" -> Position_new(p.x + 1, p.y)

(* Position::new_move *)
new_move(p, direction) ==
    CASE direction = "Up" -> Position_new(p.x, p.y - 1)
      [] direction = "Down" -> Position_new(p.x - 1, p.y)
      [] direction = "Left" -> Position_new(p.x - 1, p.y - 1)
      [] direction = "Right" -> Position_new(p.x + 1, p.y + 1)

(* Tank::new *)
Tank_new(p, direction) ==
    [ pos |-> p,
      last_known_position |-> None,
      next_direction |-> None,
      direction |-> direction,
      last_known_direction |-> None,
      next_pos |-> None ]

(* `as i32` on an isize: the low 32 bits, read as a signed number *)
I32_MAX == 2147483647

as_i32(v) ==
    IF -I32_MAX - 1 <= v /\ v <= I32_MAX
    THEN v
    ELSE ((v + I32_MAX + 1) % (2 * I32_MAX + 2)) - I32_MAX - 1

(* variant: the grid position is used as the pixel origin, unscaled *)
Rect_from_unscaled(p) ==
    [x |-> as_i32(p.x), y |-> as_i32(p.y), w |-> 10, h |-> 10]

(* impl From<Position> for graphics::Rect *)
Rect_from(p) ==
    [x |-> as_i32(p.x * 10), y |-> as_i32(p.y * 10), w |-> 10, h |-> 10]

----------------------------------------------------------------------------
(* GameState::key_down_event, on the Tank it owns.  `keycode` is           *)
(* input.keycode, an Option<KeyCode>.                                      *)

(* variant: every accepted request is committed at once, none is staged *)
key_down_event_nostage(t, keycode) ==
    LET d == requested(keycode) IN
    IF is_some(d) /\ is_some(t.last_known_direction)
       /\ inverse(unwrap(d)) # unwrap(t.last_known_direction)
    THEN [t EXCEPT !.direction = unwrap(d)]
    ELSE t

(* variant: the commit branch also refreshes the direction snapshot *)
key_down_event_snap(t, keycode) ==
    LET d == requested(keycode) IN
    IF is_some(d) /\ is_some(t.last_known_direction)
    THEN LET dir == unwrap(d)
             last_known_dir == unwrap(t.last_known_direction)
         IN IF t.direction # last_known_dir /\ inverse(dir) # t.direction
            THEN [t EXCEPT !.next_direction = Some(dir)]
            ELSE IF inverse(dir) # last_known_dir
                 THEN [t EXCEPT !.direction = dir,
                                !.last_known_direction = Some(dir)]
                 ELSE t
    ELSE t

(* variant: without a direction snapshot the request is committed *)
key_down_event_warm(t, keycode) ==
    LET d == requested(keycode) IN
    IF is_some(d)
    THEN LET dir == unwrap(d) IN
         IF is_some(t.last_known_direction)
         THEN LET last_known_dir == unwrap(t.last_known_direction) IN
              IF t.direction # last_known_dir /\ inverse(dir) # t.direction
              THEN [t EXCEPT !.next_direction = Some(dir)]
              ELSE IF inverse(dir) # last_known_dir
                   THEN [t EXCEPT !.direction = dir]
                   ELSE t
         ELSE [t EXCEPT !.direction = dir]
    ELSE t

(* variant: a staged request is not overwritten *)
key_down_event_first(t, keycode) ==
    LET d == requested(keycode) IN
    IF is_some(d) /\ is_some(t.last_known_direction)
    THEN LET dir == unwrap(d)
             last_known_dir == unwrap(t.last_known_direction)
         IN IF t.direction # last_known_dir /\ inverse(dir) # t.direction
            THEN IF is_some(t.next_direction)
                 THEN t
                 ELSE [t EXCEPT !.next_direction = Some(dir)]
            ELSE IF inverse(dir) # last_known_dir
                 THEN [t EXCEPT !.direction = dir]
                 ELSE t
    ELSE t

(* GameState::key_down_event *)
key_down_event(t, keycode) ==
    LET d == requested(keycode) IN
    IF is_some(d)
    THEN LET dir == unwrap(d) IN
         IF is_some(t.last_known_direction)
         THEN LET last_known_dir == unwrap(t.last_known_direction) IN
              IF t.direction # last_known_dir /\ inverse(dir) # t.direction
              THEN [t EXCEPT !.next_direction = Some(dir)]
              ELSE IF inverse(dir) # last_known_dir
                   THEN [t EXCEPT !.direction = dir]
                   ELSE t
         ELSE t
    ELSE t

----------------------------------------------------------------------------
(* Tank::update, one operator per statement group, in source order *)

(* variant: the first tick takes the position snapshot *)
update_pos_commit_snap(t, np) ==
    IF is_some(t.last_known_position)
    THEN IF unwrap(t.last_known_position) = t.pos /\ is_some(t.next_pos)
         THEN [t EXCEPT !.pos = unwrap(t.next_pos), !.next_pos = None]
         ELSE [t EXCEPT !.last_known_position = Some(t.pos), !.pos = np]
    ELSE [t EXCEPT !.last_known_position = Some(t.pos)]

(* variant: a missing position snapshot is treated as a stale one *)
update_pos_commit_stale(t, np) ==
    IF is_some(t.last_known_position)
       /\ unwrap(t.last_known_position) = t.pos /\ is_some(t.next_pos)
    THEN [t EXCEPT !.pos = unwrap(t.next_pos), !.next_pos = None]
    ELSE [t EXCEPT !.last_known_position = Some(t.pos), !.pos = np]

(* Tank::update, lines 203-210: position commit *)
update_pos_commit(t, np) ==
    IF is_some(t.last_known_position)
    THEN IF unwrap(t.last_known_position) = t.pos /\ is_some(t.next_pos)
         THEN [t EXCEPT !.pos = unwrap(t.next_pos), !.next_pos = None]
         ELSE [t EXCEPT !.last_known_position = Some(t.pos), !.pos = np]
    ELSE t

(* lines 211-213: stage the projection of the candidate *)
update_stage(t, np) ==
    [t EXCEPT !.next_pos = Some(new_move(np, t.direction))]

(* variant: the first tick takes the direction snapshot *)
update_dir_commit_snap(t) ==
    IF is_some(t.last_known_direction)
       /\ unwrap(t.last_known_direction) = t.direction
       /\ is_some(t.next_direction)
    THEN [t EXCEPT !.direction = unwrap(t.next_direction),
                   !.next_direction = None]
    ELSE [t EXCEPT !.last_known_direction = Some(t.direction)]

(* lines 215-221: direction commit *)
update_dir_commit(t) ==
    IF is_some(t.last_known_direction)
    THEN IF unwrap(t.last_known_direction) = t.direction
            /\ is_some(t.next_direction)
         THEN [t EXCEPT !.direction = unwrap(t.next_direction),
                        !.next_direction = None]
         ELSE [t EXCEPT !.last_known_direction = Some(t.direction)]
    ELSE t

(* variant: a request still pending is applied without the reversal test *)
update_pending_always(t) ==
    IF is_some(t.next_direction)
    THEN [t EXCEPT !.direction = unwrap(t.next_direction)]
    ELSE t

(* lines 223-227: a request still pending is applied unless it reverses *)
update_pending(t) ==
    IF is_some(t.next_direction)
    THEN IF inverse(unwrap(t.next_direction)) # t.direction
         THEN [t EXCEPT !.direction = unwrap(t.next_direction)]
         ELSE t
    ELSE t

(* variant: the slot is left as it is *)
update_clear_keep(t) == t

(* line 229 *)
update_clear(t) == [t EXCEPT !.next_direction = None]

(* line 231 *)
update_project(t) == [t EXCEPT !.pos = new_move(t.pos, t.direction)]

(* Tank::update *)
Tank_update(t, np) ==
    update_project(
      update_clear(
        update_pending(
          update_dir_commit(
            update_stage(
              update_pos_commit(t, np), np)))))

----------------------------------------------------------------------------
(* Inputs *)

(* Option<KeyCode> values a key event can carry *)
KeyInput == {None} \cup {Some(k) : k \in KeyCode}

(* positions a Tank is constructed at, and candidates handed to update *)
StartPositions == {Position_new(10, 10), Position_new(0, 0), Position_new(-3, 7)}
Candidates == {Position_new(20, 20), Position_new(10, 10), Position_new(-1, 0)}

OptionOf(S) == {None} \cup {Some(v) : v \in S}

(* every combination of field values, for the per-state claims *)
AnyTank ==
    [ pos : {Position_new(10, 10)},
      next_pos : OptionOf({Position_new(21, 21)}),
      last_known_position : OptionOf({Position_new(10, 10), Position_new(9, 9)}),
      direction : Direction,
      last_known_direction : OptionOf(Direction),
      next_direction : OptionOf(Direction) ]

(* an arrow key that does not ask for the inverse of the heading of t *)
ValidRequest(t, keycode) ==
    LET d == requested(keycode) IN
    is_some(d) /\ inverse(unwrap(d)) # t.direction

----------------------------------------------------------------------------
(* Actions *)

History(t) ==
    /\ pre = t
    /\ op = "new"
    /\ input = None
    /\ new_pos = None
    /\ ticks = 0
    /\ keys = 0
    /\ moved = 0
    /\ clean = TRUE
    /\ rect = None

(* a Tank as constructed, for any start position and heading *)
Init ==
    /\ tank \in {Tank_new(p, d) : p \in StartPositions, d \in Direction}
    /\ History(tank)

(* a Tank in any state *)
InitAny ==
    /\ tank \in AnyTank
    /\ History(tank)

(* the host delivers a key press *)
KeyDown(keycode) ==
    /\ keys < MaxKeys
    /\ tank' = key_down_event(tank, keycode)
    /\ pre' = tank
    /\ op' = "key"
    /\ input' = keycode
    /\ new_pos' = None
    /\ keys' = keys + 1
    /\ moved' = (IF tank'.direction # tank.direction THEN moved + 1 ELSE moved)
    /\ clean' = (clean /\ ValidRequest(tank, keycode))
    /\ rect' = None
    /\ UNCHANGED ticks

(* a tick calls Tank::update with a candidate position *)
Advance(candidate) ==
    /\ ticks < MaxTicks
    /\ tank' = Tank_update(tank, candidate)
    /\ pre' = tank
    /\ op' = "tick"
    /\ input' = None
    /\ new_pos' = Some(candidate)
    /\ ticks' = ticks + 1
    /\ moved' = 0
    /\ clean' = TRUE
    /\ rect' = None
    /\ UNCHANGED keys

Next ==
    \/ \E keycode \in KeyInput : KeyDown(keycode)
    \/ \E candidate \in Candidates : Advance(candidate)

Spec == Init /\ [][Next]_vars

SpecAny == InitAny /\ [][Next]_vars

----------------------------------------------------------------------------
(* The game session: GameState::new, and the three callbacks of the host *)

SCREEN_SIZE == 480

(* a counter that stops counting at its bound *)
Bump(n, max) == IF n < max THEN n + 1 ELSE n

(* the test of GameState::update, line 122 *)
on_screen(t) == t.pos.x < SCREEN_SIZE /\ t.pos.y < SCREEN_SIZE

(* the candidate GameState::update passes, lines 124-127 *)
candidate_of(t) == Position_new(t.pos.x + 10, t.pos.y + 10)

(* variant: the edge of the screen is still on it *)
GameState_update_edge(t) ==
    IF t.pos.x <= SCREEN_SIZE /\ t.pos.y <= SCREEN_SIZE
    THEN Tank_update(t, candidate_of(t))
    ELSE t

(* variant: the tank is updated on every tick *)
GameState_update_always(t) == Tank_update(t, candidate_of(t))

(* one iteration of the loop of GameState::update *)
GameState_update(t) ==
    IF on_screen(t) THEN Tank_update(t, candidate_of(t)) ELSE t

(* GameState::new *)
InitGame ==
    /\ tank = Tank_new(Position_new(10, 10), "Right")
    /\ History(tank)

(* the timer grants one more update of the game world *)
GameTick ==
    /\ tank' = GameState_update(tank)
    /\ pre' = tank
    /\ op' = "tick"
    /\ input' = None
    /\ new_pos' = (IF tank' # tank THEN Some(candidate_of(tank)) ELSE None)
    /\ ticks' = Bump(ticks, MaxTicks)
    /\ moved' = 0
    /\ clean' = TRUE
    /\ rect' = None
    /\ UNCHANGED keys

(* a key press at any time of the session *)
GameKeyDown(keycode) ==
    /\ tank' = key_down_event(tank, keycode)
    /\ pre' = tank
    /\ op' = "key"
    /\ input' = keycode
    /\ new_pos' = None
    /\ keys' = Bump(keys, MaxKeys)
    /\ moved' = (IF tank'.direction # tank.direction
                 THEN Bump(moved, MaxKeys) ELSE moved)
    /\ clean' = (clean /\ ValidRequest(tank, keycode))
    /\ rect' = None
    /\ UNCHANGED ticks

(* GameState::draw / Tank::draw: the frame shows the current position *)
Draw ==
    /\ rect' = Some(Rect_from(tank.pos))
    /\ pre' = tank
    /\ op' = "draw"
    /\ input' = None
    /\ new_pos' = None
    /\ UNCHANGED <<tank, ticks, keys, moved, clean>>

NextGame ==
    \/ GameTick
    \/ \E keycode \in KeyInput : GameKeyDown(keycode)
    \/ Draw

SpecGame == InitGame /\ [][NextGame]_vars

(* the host's timer keeps granting updates *)
SpecGameFair == SpecGame /\ WF_vars(GameTick)

----------------------------------------------------------------------------
(* C1: from construction, under any interleaving of key presses and ticks, *)
(* no operation leaves `direction` at the inverse of the value it held     *)
(* when the operation began (each operation assigns `direction` at most    *)
(* once to a new value).                                                   *)
C1_NoReversal == tank.direction # inverse(pre.direction)

(* a reversal was requested after a tick, and was not committed *)
C1_Witness ==
    /\ op = "key"
    /\ ticks >= 1
    /\ input = Some(inverse(pre.direction))
    /\ tank.direction = pre.direction

(* C2: in every Tank state with last_known_direction present, a key press  *)
(* for inverse(direction) leaves `direction` unchanged.                     *)
C2_ReversalDropped ==
    /\ (/\ op = "key"
        /\ is_some(pre.last_known_direction)
        /\ input = Some(inverse(pre.direction)))
       => tank.direction = pre.direction
    /\ (/\ op = "key"
        /\ pre.last_known_direction = Some("Right")
        /\ pre.direction = "Up"
        /\ input = Some("Down"))
       => tank.direction = "Up"

(* C3: from construction with heading Right, after one tick and no input,  *)
(* a key press for a direction that is not the inverse of the heading      *)
(* commits at once.                                                        *)
C3_InputCommits ==
    (/\ op = "key"
     /\ ticks = 1
     /\ keys = 1
     /\ pre.direction = "Right"
     /\ is_some(requested(input))
     /\ unwrap(requested(input)) # inverse(pre.direction))
    => tank.direction = unwrap(requested(input))

(* C4: both snapshots are empty in the constructed Tank and present after  *)
(* the first tick and ever after.                                          *)
C4_BootstrapPopulates ==
    /\ ticks = 0 =>
          /\ tank.last_known_position = None
          /\ tank.last_known_direction = None
    /\ ticks >= 1 =>
          /\ is_some(tank.last_known_position)
          /\ is_some(tank.last_known_direction)

(* C5: the first tick after construction, with no prior input, keeps the   *)
(* heading and moves pos to new_move(initial pos, initial heading),        *)
(* whatever the candidate; from (10,10) heading Right it ends at (11,11).  *)
C5_BootstrapMotion ==
    (op = "tick" /\ ticks = 1 /\ keys = 0) =>
        /\ tank.direction = pre.direction
        /\ tank.pos = new_move(pre.pos, pre.direction)
        /\ (pre.pos = Position_new(10, 10) /\ pre.direction = "Right") =>
              (tank.pos = Position_new(11, 11) /\ tank.direction = "Right")

(* the first tick from (10,10) heading Right with a candidate elsewhere *)
C5_Witness ==
    /\ op = "tick" /\ ticks = 1 /\ keys = 0
    /\ pre = Tank_new(Position_new(10, 10), "Right")
    /\ new_pos = Some(Position_new(20, 20))
    /\ tank.pos = Position_new(11, 11)

(* C6: from construction, whenever last_known_direction is present,        *)
(* direction is not its inverse.                                           *)
C6_SnapshotInvariant ==
    is_some(tank.last_known_direction) =>
        tank.direction # inverse(unwrap(tank.last_known_direction))

(* the case C6 speaks of: a state with the direction snapshot present *)
C6_Case == is_some(tank.last_known_direction)

(* C7: for every Tank state and candidate, next_direction is empty when    *)
(* Tank::update returns.                                                   *)
C7_SlotCleared == op = "tick" => tank.next_direction = None

(* a tick met a buffered request and discarded it without applying it *)
C7_Witness ==
    /\ op = "tick"
    /\ is_some(pre.next_direction)
    /\ tank.direction # unwrap(pre.next_direction)
    /\ tank.next_direction = None

(* C8: from construction, every tick moves pos by exactly one new_move     *)
(* along the heading in effect when the tick ends.                         *)
C8_OneStep == op = "tick" => tank.pos = new_move(pre.pos, tank.direction)

(* a second tick, after input, whose candidate is not where the tank stood *)
C8_Witness ==
    /\ op = "tick"
    /\ ticks = 2
    /\ keys >= 1
    /\ new_pos # Some(pre.pos)
    /\ Some(tank.pos) # new_pos
    /\ tank.pos # new_move(unwrap(new_pos), tank.direction)

(* C9: for every Tank state and key, a key press leaves pos, next_pos,     *)
(* last_known_position and last_known_direction as they were.              *)
C9_KeyFrame ==
    op = "key" =>
        /\ tank.pos = pre.pos
        /\ tank.next_pos = pre.next_pos
        /\ tank.last_known_position = pre.last_known_position
        /\ tank.last_known_direction = pre.last_known_direction

(* a key press that did write: the heading changed *)
C9_Witness ==
    /\ op = "key"
    /\ tank.direction # pre.direction
    /\ tank.pos = pre.pos

(* C10: among arrow-key requests issued since the last tick, none of them  *)
(* asking for the inverse of the heading it met, at most one changes       *)
(* `direction`; each request after that one writes only next_direction     *)
(* and leaves its own direction there, so the slot holds the last one.     *)
C10_SingleQueued ==
    clean =>
        /\ moved <= 1
        /\ (op = "key" /\ moved = 1 /\ tank.direction = pre.direction) =>
              tank = [pre EXCEPT !.next_direction = requested(input)]

(* after a tick: one request committed, one staged, a third overwrote it *)
C10_Witness ==
    /\ op = "key"
    /\ ticks >= 1
    /\ clean
    /\ moved = 1
    /\ is_some(pre.next_direction)
    /\ tank.next_direction # pre.next_direction
    /\ tank.next_direction = requested(input)

----------------------------------------------------------------------------
(* the key codes of the four arrow keys *)
ArrowKeys == {"Up", "Down", "Left", "Right"}

(* C11: for every Tank state, a key press that carries no key code, or a   *)
(* key code other than the four arrow keys, leaves all six fields as they  *)
(* were.                                                                   *)
C11_OtherKeyIgnored ==
    (op = "key" /\ (input = None \/ unwrap(input) \notin ArrowKeys)) =>
        tank = pre

(* a non-arrow key arrived at a Tank that would have accepted an arrow key *)
C11_Witness ==
    /\ op = "key"
    /\ input = Some("Space")
    /\ is_some(pre.last_known_direction)
    /\ pre.direction = unwrap(pre.last_known_direction)
    /\ tank = pre

(* C12: for every Tank state with last_known_direction empty, a key press  *)
(* with any key leaves all six fields as they were.                        *)
C12_WarmUp == (op = "key" /\ pre.last_known_direction = None) => tank = pre

(* an arrow key that turns the heading arrived before any snapshot *)
C12_Witness ==
    /\ op = "key"
    /\ pre.last_known_direction = None
    /\ pre.direction = "Right"
    /\ input = Some("Up")
    /\ tank = pre

(* C13: the position Tank::update stages from candidate (x, y) and heading *)
(* d is (x, y-1) for Up, (x-1, y) for Down, (x-1, y-1) for Left and        *)
(* (x+1, y+1) for Right.                                                   *)
C13_ProjectionRule ==
    op = "tick" =>
        LET p == unwrap(new_pos)
            q == unwrap(tank.next_pos)
            d == pre.direction
        IN /\ d = "Up" => (q.x = p.x /\ q.y = p.y - 1)
           /\ d = "Down" => (q.x = p.x - 1 /\ q.y = p.y)
           /\ d = "Left" => (q.x = p.x - 1 /\ q.y = p.y - 1)
           /\ d = "Right" => (q.x = p.x + 1 /\ q.y = p.y + 1)

(* the projection of (10,10) along Down, the step that is not vertical *)
C13_Witness ==
    /\ op = "tick"
    /\ pre.direction = "Down"
    /\ new_pos = Some(Position_new(10, 10))
    /\ tank.next_pos = Some(Position_new(9, 10))

(* The advance algorithm as the specification words it, steps 1 to 6 *)
advance_spec(t, candidate_position) ==
    LET pos1 ==
            IF t.last_known_position = None THEN t.pos
            ELSE IF t.last_known_position = Some(t.pos) /\ t.next_pos # None
                 THEN unwrap(t.next_pos)
                 ELSE candidate_position
        lkp1 ==
            IF t.last_known_position = None THEN None
            ELSE IF t.last_known_position = Some(t.pos) /\ t.next_pos # None
                 THEN t.last_known_position
                 ELSE Some(t.pos)
        queued == t.last_known_direction = Some(t.direction)
                    /\ t.next_direction # None
        dir3 == IF t.last_known_direction # None /\ queued
                THEN unwrap(t.next_direction) ELSE t.direction
        lkd3 == IF t.last_known_direction # None /\ ~queued
                THEN Some(t.direction) ELSE t.last_known_direction
        nd3 == IF t.last_known_direction # None /\ queued
               THEN None ELSE t.next_direction
        dir4 == IF nd3 # None /\ unwrap(nd3) # inverse(dir3)
                THEN unwrap(nd3) ELSE dir3
    IN [ pos |-> new_move(pos1, dir4),
         next_pos |-> Some(new_move(candidate_position, t.direction)),
         last_known_position |-> lkp1,
         direction |-> dir4,
         last_known_direction |-> lkd3,
         next_direction |-> None ]

(* C15: for every Tank state and candidate, the Tank that Tank::update     *)
(* leaves is the one steps 1 to 6 of the specified advance produce.        *)
C15_AdvanceSteps ==
    op = "tick" => tank = advance_spec(pre, unwrap(new_pos))

(* a tick that met a stale direction snapshot and a pending request *)
C15_Witness ==
    /\ op = "tick"
    /\ is_some(pre.last_known_direction)
    /\ pre.direction # unwrap(pre.last_known_direction)
    /\ is_some(pre.next_direction)
    /\ is_some(pre.last_known_position)
    /\ tank.direction = unwrap(pre.next_direction)
    /\ tank.direction # pre.direction

(* C16: for every Tank state with last_known_direction present and         *)
(* different from direction, a key press for a direction d that is not     *)
(* inverse(direction) sets next_direction to d and changes nothing else.   *)
C16_Staging ==
    (/\ op = "key"
     /\ is_some(pre.last_known_direction)
     /\ pre.direction # unwrap(pre.last_known_direction)
     /\ is_some(input)
     /\ unwrap(input) \in Direction
     /\ unwrap(input) # inverse(pre.direction))
    => tank = [pre EXCEPT !.next_direction = Some(unwrap(input))]

(* a request replaced another that was already staged *)
C16_Witness ==
    /\ op = "key"
    /\ pre.last_known_direction = Some("Right")
    /\ pre.direction = "Up"
    /\ pre.next_direction = Some("Left")
    /\ input = Some("Right")
    /\ tank.next_direction = Some("Right")
    /\ tank.direction = "Up"

(* C14: for every position the tank reaches in the game session, the       *)
(* rectangle drawn has its origin at exactly (pos.x * 10, pos.y * 10),     *)
(* both products within the 32-bit range, and is 10 wide and 10 high.      *)
C14_DrawRect ==
    op = "draw" =>
        /\ rect = Some([x |-> tank.pos.x * 10, y |-> tank.pos.y * 10,
                        w |-> 10, h |-> 10])
        /\ -I32_MAX - 1 <= tank.pos.x * 10 /\ tank.pos.x * 10 <= I32_MAX
        /\ -I32_MAX - 1 <= tank.pos.y * 10 /\ tank.pos.y * 10 <= I32_MAX

(* the frame drawn before the first tick: (10,10) is drawn at (100,100) *)
C14_Witness ==
    /\ op = "draw"
    /\ tank.pos = Position_new(10, 10)
    /\ rect = Some([x |-> 100, y |-> 100, w |-> 10, h |-> 10])

(* C17: from construction, under any interleaving of key presses and       *)
(* ticks, a key press changes no field of the Tank, no operation changes   *)
(* `direction` (so it stays the heading the constructor was given), and    *)
(* next_direction is always empty.                                         *)
C17_NeverSteered ==
    /\ op = "key" => tank = pre
    /\ tank.direction = pre.direction
    /\ tank.next_direction = None

(* after a tick, an arrow key that would turn the tank changed nothing *)
C17_Witness ==
    /\ op = "key"
    /\ ticks >= 1
    /\ pre.direction = "Right"
    /\ input = Some("Up")
    /\ tank = pre
    /\ tank.direction = "Right"

(* C18: in the game session Tank::update runs on a tick only from a        *)
(* position with x < 480 and y < 480, with candidate pos + (10,10), and    *)
(* pos.x <= 480 and pos.y <= 480 in every reachable state.                 *)
C18_HostGuard ==
    /\ tank.pos.x <= 480
    /\ tank.pos.y <= 480
    /\ (op = "tick" /\ tank # pre) =>
          /\ pre.pos.x < 480
          /\ pre.pos.y < 480
          /\ new_pos = Some(Position_new(pre.pos.x + 10, pre.pos.y + 10))

(* the last update of the session: from (479,479) to the edge *)
C18_Witness ==
    /\ op = "tick"
    /\ pre.pos = Position_new(479, 479)
    /\ tank.pos = Position_new(480, 480)

(* the tank has left the region in which GameState::update updates it *)
Stopped == ~(tank.pos.x < 480 /\ tank.pos.y < 480)

(* C19: with ticks delivered fairly, whatever keys are pressed, the        *)
(* session reaches a state in which the host guard is false, and from      *)
(* there no step changes any field of the Tank.                            *)
C19_StopsForGood ==
    /\ <>Stopped
    /\ [][Stopped => tank' = tank]_vars

(* an arrow key pressed after the tank has stopped, to no effect *)
C19_Witness ==
    /\ Stopped
    /\ op = "key"
    /\ input = Some("Up")
    /\ tank = pre

====
